---- MODULE Spec2Model ----
(***************************************************************************)
(* Model of internal/gamepad/gamepad_darwin.go: the IOKit HID gamepad      *)
(* backend (attach/detach callbacks, element classification, per-poll      *)
(* sampling) together with the registry it calls into.                     *)
(*                                                                         *)
(* Numbers.  Raw element values, logical minima and maxima are HID values  *)
(* (at most 32 bits) held in Go's 64-bit int, so raw-minimum and           *)
(* maximum-minimum never wrap and float64() of them is exact.  An axis     *)
(* value 2*float64(raw-min)/float64(size) - 1 is kept here as the exact    *)
(* fraction (2*(raw-min) - size)/size in lowest terms; for operands below  *)
(* 2^53 the float64 result is 0, inside [-1,1] or outside it exactly when  *)
(* this fraction is.                                                        *)
(*                                                                         *)
(* Indices.  Go slices are 0-based; sequences here are 1-based.  Data that *)
(* the program stores (element.index, the argument of axisValue) keep      *)
(* their 0-based values.                                                   *)
(***************************************************************************)
EXTENDS FiniteSets, Integers, Sequences, TLC

(* ---------------------------- bounds ----------------------------------- *)

\* Number of distinct native device handles (IOHIDDeviceRef values).
MaxDevices == 2
\* Number of Gamepad records add() may allocate in one behaviour.
MaxRecords == 2
\* Raw element values range over -1..MaxRaw.
MaxRaw == 8
\* Logical minima and maxima of sampled axes range over -1..MaxLogical.
MaxLogical == 3

Devices == 1..MaxDevices
Ids == 1..MaxRecords
RawValues == (-1)..MaxRaw

(* ------------------- IOKit constants used by the code ------------------- *)

\* kIOHIDElementType* compared at lines 324-326.
kIOHIDElementType ==
    [Input_Misc |-> 1, Input_Button |-> 2, Input_Axis |-> 3,
     Input_ScanCodes |-> 4, Collection |-> 513]

\* kHIDPage_* switched on at lines 333-375.
kHIDPage ==
    [GenericDesktop |-> 1, Simulation |-> 2, Button |-> 9, Consumer |-> 12,
     KeyboardOrKeypad |-> 7]

\* kHIDUsage_GD_* of lines 336-355.
kHIDUsage_GD ==
    [X |-> 48, Y |-> 49, Z |-> 50, Rx |-> 51, Ry |-> 52, Rz |-> 53,
     Slider |-> 54, Dial |-> 55, Wheel |-> 56, Hatswitch |-> 57,
     Start |-> 61, Select |-> 62, SystemMainMenu |-> 133,
     DPadUp |-> 144, DPadDown |-> 145, DPadRight |-> 146, DPadLeft |-> 147]

\* kHIDUsage_Sim_* of line 366.
kHIDUsage_Sim ==
    [Rudder |-> 186, Throttle |-> 187, Accelerator |-> 196, Brake |-> 197,
     Steering |-> 200]

(* --------------------------- hat states --------------------------------- *)

hatCentered == "Centered"
hatUp == "Up"
hatRightUp == "RightUp"
hatRight == "Right"
hatRightDown == "RightDown"
hatDown == "Down"
hatLeftDown == "LeftDown"
hatLeft == "Left"
hatLeftUp == "LeftUp"

\* The table built at lines 154-163.
hatStates ==
    <<hatUp, hatRightUp, hatRight, hatRightDown,
      hatDown, hatLeftDown, hatLeft, hatLeftUp>>

(* ------------------------ exact fractions ------------------------------- *)

RECURSIVE GCD(_, _)
GCD(a, b) == IF b = 0 THEN a ELSE GCD(b, a % b)

Abs(n) == IF n < 0 THEN -n ELSE n

\* n/d (d # 0) in lowest terms with a positive denominator.
Frac(n, d) ==
    LET g == GCD(Abs(n), Abs(d))
        s == IF d < 0 THEN -1 ELSE 1
    IN [num |-> s * (n \div g), den |-> s * (d \div g)]

\* The zero value of float64.
Zero == [num |-> 0, den |-> 1]

(* ------------------------- devices -------------------------------------- *)

\* A Go string is a sequence of bytes.
NameUnknown == <<85, 110, 107, 110, 111, 119, 110>>
NamePad == <<80, 97, 100>>
NameLong == <<74, 111, 121, 115, 116, 105, 99, 107, 32, 80, 114, 111, 50>>

RawElement(isElem, typ, page, usage, lmin, lmax) ==
    [isElement |-> isElem, type |-> typ, page |-> page, usage |-> usage,
     logicalMin |-> lmin, logicalMax |-> lmax]

\* What IOKit reports for one attached device: its properties and the array
\* IOHIDDeviceCopyMatchingElements returns.
Device(hasName, name, vendor, product, version, elements) ==
    [hasName |-> hasName, name |-> name, vendor |-> vendor,
     product |-> product, version |-> version, elements |-> elements]

\* The devices that are plugged and unplugged: a pad with a button behind a
\* collection element, and a nameless stick with one axis.
DeviceCatalog ==
    { Device(TRUE, NamePad, 1118, 654, 276,
        << RawElement(TRUE, kIOHIDElementType.Collection,
                      kHIDPage.GenericDesktop, kHIDUsage_GD.X, 0, 0),
           RawElement(TRUE, kIOHIDElementType.Input_Button,
                      kHIDPage.Button, 1, 0, 1) >>),
      Device(FALSE, <<>>, 0, 654, 0,
        << RawElement(TRUE, kIOHIDElementType.Input_Misc,
                      kHIDPage.GenericDesktop, kHIDUsage_GD.X, 0, 1),
           RawElement(FALSE, kIOHIDElementType.Input_Button,
                      kHIDPage.Button, 1, 0, 1) >>) }

\* The logical minima and maxima of the sampled axes: every pair over
\* LogicalValues, so minimum > maximum and minimum = maximum occur.
LogicalValues == (-1)..MaxLogical

\* The devices whose sampling is explored: a stick with one axis, for every
\* logical range; a pad with a hat and a button; a wheel with two simulation
\* axes reported in descending usage order.
SamplerCatalog ==
    { Device(TRUE, NamePad, 1118, 654, 276,
        << RawElement(TRUE, kIOHIDElementType.Input_Axis,
                      kHIDPage.GenericDesktop, kHIDUsage_GD.Y, lo, hi) >>)
        : lo \in LogicalValues, hi \in LogicalValues }
    \cup
    { Device(TRUE, NameLong, 0, 0, 0,
        << RawElement(TRUE, kIOHIDElementType.Input_Misc,
                      kHIDPage.GenericDesktop, kHIDUsage_GD.Hatswitch, 0, 7),
           RawElement(TRUE, kIOHIDElementType.Input_Button,
                      kHIDPage.GenericDesktop, kHIDUsage_GD.DPadUp, 0, 1) >>),
      Device(FALSE, <<>>, 1118, 0, 0,
        << RawElement(TRUE, kIOHIDElementType.Input_Axis,
                      kHIDPage.Simulation, kHIDUsage_Sim.Steering, 0, 4),
           RawElement(TRUE, kIOHIDElementType.Input_Axis,
                      kHIDPage.Simulation, kHIDUsage_Sim.Accelerator, 0, 1) >>) }

\* The outcome of one IOHIDDeviceGetValue call: its status and, on success,
\* the integer IOHIDValueGetIntegerValue returns.
ReadResults ==
    {[ok |-> FALSE, value |-> 0]} \cup {[ok |-> TRUE, value |-> v] : v \in RawValues}

(* --------------------------- state -------------------------------------- *)

VARIABLES
    gamepads,     \* every Gamepad record allocated so far, by identity
    nextId,       \* identity of the next record add() allocates
    theGamepads,  \* the registry: identities of the records it holds
    lastCall,     \* the callback that ran last, and whether it found a
                  \* registry record for the notified device
    callback,     \* where a matching callback that has not returned yet
                  \* stands: the statement it runs next, the record add()
                  \* gave it, its device, its elements array and loop index
    err,          \* UserInterface.err
    errM,         \* UserInterface.errM: 0, or the goroutine holding it
    running,      \* UserInterface.running
    terminated,   \* UserInterface.terminated
    call          \* per goroutine: the statement of the UserInterface
                  \* method it runs next, the method's argument and locals,
                  \* and what its last error() and isRunning() or
                  \* isTerminated() returned

\* The state of the gamepad backend.
gamepadVars == <<gamepads, nextId, theGamepads, lastCall, callback>>

\* The state of theUI and of the goroutines that call it.
uiVars == <<err, errM, running, terminated, call>>

vars == <<gamepadVars, uiVars>>

\* The goroutines that call theUI's methods.
MaxProcs == 2
Procs == 1..MaxProcs

\* The nil error.
nil == "nil"

\* A goroutine that is in no UserInterface method.
NoCall == [pc |-> "idle", arg |-> nil, ret |-> nil, seen |-> 0, result |-> FALSE]

\* The zero value of UserInterface.
ZeroUserInterface ==
    /\ err = nil
    /\ errM = 0
    /\ running = 0
    /\ terminated = 0
    /\ call = [p \in Procs |-> NoCall]

\* No matching callback is running.
NoCallback ==
    [pc |-> "idle", id |-> 0, device |-> 0, elements |-> <<>>, i |-> 0]

\* The zero value of Gamepad (and of the nativeGamepad embedded in it).
ZeroGamepad ==
    [name |-> <<>>, sdlID |-> <<>>, device |-> 0,
     axes |-> <<>>, buttons |-> <<>>, hats |-> <<>>,
     axisValues |-> <<>>, buttonValues |-> <<>>, hatValues |-> <<>>,
     axisCap |-> 0, buttonCap |-> 0, hatCap |-> 0]

(* ----------------------- registry (gamepads) ----------------------------- *)

\* matchingCond that matches no record.
matchingCond_never(g, device) == FALSE

\* The closure the matching callback passes to find (lines 268-270).
matchingCond(g, device) == g.device = device

\* removalCond that matches every record with a device.
removalCond_present(g, device) == g.device # 0

\* The closure the removal callback passes to remove (lines 393-395).
removalCond(g, device) == g.device = device

\* find(cond): the identity of a registry record satisfying the matching
\* callback's closure, or 0 (nil) when there is none.
find(device) ==
    IF \E id \in theGamepads : matchingCond(gamepads[id], device)
    THEN CHOOSE id \in theGamepads : matchingCond(gamepads[id], device)
    ELSE 0

\* add(name, sdlID): a new record carrying name and sdlID.
add(name, sdlID) == [ZeroGamepad EXCEPT !.name = name, !.sdlID = sdlID]

\* remove(cond): the registry without the records satisfying the removal
\* callback's closure.
remove(device) == {id \in theGamepads : ~removalCond(gamepads[id], device)}

(* ----------------------- identifier ------------------------------------- *)

HexDigits ==
    <<"0", "1", "2", "3", "4", "5", "6", "7",
      "8", "9", "a", "b", "c", "d", "e", "f">>

\* fmt's %02x of one byte.
Hex2(b) == <<HexDigits[(b \div 16) + 1], HexDigits[(b % 16) + 1]>>

\* byte(v) and byte(v>>8) of a uint32.
LoByte(v) == v % 256
HiByte_noShift(v) == v % 256
HiByte(v) == (v \div 256) % 256

\* The name the callback uses: "Unknown" unless the device has the product
\* property.
deviceName(d) == IF d.hasName THEN d.name ELSE NameUnknown

\* bs of lines 303-306: the name's bytes, zero-padded to 12 when shorter.
paddedName_spaces(name) ==
    IF Len(name) < 12
    THEN name \o [i \in 1..(12 - Len(name)) |-> 32]
    ELSE name
paddedName(name) ==
    IF Len(name) < 12
    THEN name \o [i \in 1..(12 - Len(name)) |-> 0]
    ELSE name

RECURSIVE hexBytes(_, _, _)
\* %02x of bs[from..to] (1-based), concatenated.
hexBytes(bs, from, to) ==
    IF from > to THEN <<>> ELSE Hex2(bs[from]) \o hexBytes(bs, from + 1, to)

\* The sdlID string of lines 296-309, as a sequence of characters.
sdlID(name, vendor, product, version) ==
    IF vendor # 0 /\ product # 0
    THEN <<"0", "3", "0", "0", "0", "0", "0", "0">>
         \o Hex2(LoByte(vendor)) \o Hex2(HiByte(vendor))
         \o <<"0", "0", "0", "0">>
         \o Hex2(LoByte(product)) \o Hex2(HiByte(product))
         \o <<"0", "0", "0", "0">>
         \o Hex2(LoByte(version)) \o Hex2(HiByte(version))
         \o <<"0", "0", "0", "0">>
    ELSE <<"0", "5", "0", "0", "0", "0", "0", "0">>
         \o hexBytes(paddedName(name), 1, 12)

(* ----------------------- classification --------------------------------- *)

\* The element appended to a bucket of current length n.
element(native, raw, n) ==
    [native |-> native, usage |-> raw.usage, index |-> n,
     minimum |-> raw.logicalMin, maximum |-> raw.logicalMax]

GDAxisUsages ==
    {kHIDUsage_GD.X, kHIDUsage_GD.Y, kHIDUsage_GD.Z,
     kHIDUsage_GD.Rx, kHIDUsage_GD.Ry, kHIDUsage_GD.Rz,
     kHIDUsage_GD.Slider, kHIDUsage_GD.Dial, kHIDUsage_GD.Wheel}

GDButtonUsages ==
    {kHIDUsage_GD.DPadUp, kHIDUsage_GD.DPadRight, kHIDUsage_GD.DPadDown,
     kHIDUsage_GD.DPadLeft, kHIDUsage_GD.SystemMainMenu,
     kHIDUsage_GD.Select, kHIDUsage_GD.Start}

SimAxisUsages ==
    {kHIDUsage_Sim.Accelerator, kHIDUsage_Sim.Brake, kHIDUsage_Sim.Throttle,
     kHIDUsage_Sim.Rudder, kHIDUsage_Sim.Steering}

\* The bucket the body of the loop at lines 317-384 appends element raw to:
\* "axes", "buttons", "hats", or "none" when it is skipped.
bucketOf_noConsumer(raw) ==
    IF ~raw.isElement THEN "none"
    ELSE IF raw.type \notin {kIOHIDElementType.Input_Axis,
                             kIOHIDElementType.Input_Button,
                             kIOHIDElementType.Input_Misc} THEN "none"
    ELSE IF raw.page = kHIDPage.GenericDesktop THEN
        IF raw.usage \in GDAxisUsages THEN "axes"
        ELSE IF raw.usage = kHIDUsage_GD.Hatswitch THEN "hats"
        ELSE IF raw.usage \in GDButtonUsages THEN "buttons"
        ELSE "none"
    ELSE IF raw.page = kHIDPage.Simulation THEN
        IF raw.usage \in SimAxisUsages THEN "axes" ELSE "none"
    ELSE IF raw.page = kHIDPage.Button THEN "buttons"
    ELSE "none"
bucketOf(raw) ==
    IF ~raw.isElement THEN "none"
    ELSE IF raw.type \notin {kIOHIDElementType.Input_Axis,
                             kIOHIDElementType.Input_Button,
                             kIOHIDElementType.Input_Misc} THEN "none"
    ELSE IF raw.page = kHIDPage.GenericDesktop THEN
        IF raw.usage \in GDAxisUsages THEN "axes"
        ELSE IF raw.usage = kHIDUsage_GD.Hatswitch THEN "hats"
        ELSE IF raw.usage \in GDButtonUsages THEN "buttons"
        ELSE "none"
    ELSE IF raw.page = kHIDPage.Simulation THEN
        IF raw.usage \in SimAxisUsages THEN "axes" ELSE "none"
    ELSE IF raw.page \in {kHIDPage.Button, kHIDPage.Consumer} THEN "buttons"
    ELSE "none"

RECURSIVE classify(_, _, _)
\* The loop of lines 317-384 from array position i on, on record g.
classify(g, elems, i) ==
    IF i > Len(elems) THEN g
    ELSE LET b == bucketOf(elems[i])
             g1 == IF b = "axes"
                     THEN [g EXCEPT !.axes = Append(@, element(i, elems[i], Len(@)))]
                   ELSE IF b = "buttons"
                     THEN [g EXCEPT !.buttons = Append(@, element(i, elems[i], Len(@)))]
                   ELSE IF b = "hats"
                     THEN [g EXCEPT !.hats = Append(@, element(i, elems[i], Len(@)))]
                   ELSE g
         IN classify(g1, elems, i + 1)

\* elements.Less on two elements.
Less_indexDescending(a, b) ==
    IF a.usage # b.usage THEN a.usage < b.usage
    ELSE IF a.index # b.index THEN a.index > b.index
    ELSE FALSE
Less(a, b) ==
    IF a.usage # b.usage THEN a.usage < b.usage
    ELSE IF a.index # b.index THEN a.index < b.index
    ELSE FALSE

RECURSIVE insertStable(_, _)
\* e placed into sorted sequence s after every element that is not greater.
insertStable(s, e) ==
    IF s = <<>> THEN <<e>>
    ELSE IF Less(e, s[1]) THEN <<e>> \o s
    ELSE <<s[1]>> \o insertStable(Tail(s), e)

RECURSIVE stableSort(_)
\* sort.Stable with elements.Less.
stableSort(s) ==
    IF s = <<>> THEN <<>>
    ELSE insertStable(stableSort(SubSeq(s, 1, Len(s) - 1)), s[Len(s)])

(* --------------------------- sampling ----------------------------------- *)

\* s[i] of a Go slice (0-based): the value read, or a panic when i is outside
\* the slice.
at(s, i) ==
    IF i >= 0 /\ i < Len(s)
    THEN [panic |-> FALSE, value |-> s[i + 1]]
    ELSE [panic |-> TRUE, value |-> "panic"]

\* A value returned without failing.
return(v) == [panic |-> FALSE, value |-> v]

\* elementValue: rd maps each native element to the outcome of reading it.
elementValue(g, e, rd) ==
    IF g.device = 0 THEN 0
    ELSE IF rd[e.native].ok THEN rd[e.native].value
    ELSE 0

\* widen without the comparison against the maximum.
widen_minOnly(a, raw) ==
    IF raw < a.minimum THEN [a EXCEPT !.minimum = raw] ELSE a

\* The loop variable a after lines 137-142.
widen(a, raw) ==
    LET a1 == IF raw < a.minimum THEN [a EXCEPT !.minimum = raw] ELSE a
    IN IF raw > a1.maximum THEN [a1 EXCEPT !.maximum = raw] ELSE a1

\* normalize without the final "- 1".
normalize_noOffset(a, raw) ==
    LET size == a.maximum - a.minimum
    IN IF size # 0 THEN Frac(2 * (raw - a.minimum), size) ELSE Zero

\* value of lines 143-146, for the widened loop variable a.
normalize(a, raw) ==
    LET size == a.maximum - a.minimum
    IN IF size # 0 THEN Frac(2 * (raw - a.minimum) - size, size) ELSE Zero

\* storedAxis when the loop writes raw into the slice's element.
storedAxis_raw(e, raw) == [e EXCEPT !.minimum = raw, !.maximum = raw]

\* What g.axes[i] holds after the iteration that read raw for it: the loop
\* variable a of "for i, a := range g.axes" is a copy of the element, and the
\* loop body assigns to the copy only.
storedAxis(e, raw) == e

\* g.axisValues[i] for axis element e.
sampleAxis(g, e, rd) ==
    LET raw == elementValue(g, e, rd) IN normalize(widen(e, raw), raw)

\* g.buttonValues[i] for button element e.
sampleButton(g, e, rd) == elementValue(g, e, rd) > 0

\* sampleHat with "state <= 0" for "state < 0".
sampleHat_lowerBound(g, e, rd) ==
    LET state == elementValue(g, e, rd)
    IN IF state <= 0 \/ state >= Len(hatStates) THEN hatCentered
       ELSE at(hatStates, state).value

\* g.hatValues[i] for hat element e.
sampleHat(g, e, rd) ==
    LET state == elementValue(g, e, rd)
    IN IF state < 0 \/ state >= Len(hatStates) THEN hatCentered
       ELSE at(hatStates, state).value

\* The capacity of a value buffer after lines 120-133.
grow(cap, n) == IF cap < n THEN n ELSE cap

\* The record after update() with the reads rd.
update(g, rd) ==
    [g EXCEPT
       !.axisCap = grow(@, Len(g.axes)),
       !.buttonCap = grow(@, Len(g.buttons)),
       !.hatCap = grow(@, Len(g.hats)),
       !.axes = [i \in 1..Len(g.axes) |->
                    storedAxis(g.axes[i], elementValue(g, g.axes[i], rd))],
       !.axisValues = [i \in 1..Len(g.axes) |-> sampleAxis(g, g.axes[i], rd)],
       !.buttonValues = [i \in 1..Len(g.buttons) |-> sampleButton(g, g.buttons[i], rd)],
       !.hatValues = [i \in 1..Len(g.hats) |-> sampleHat(g, g.hats[i], rd)]]

present(g) == g.device # 0

axisNum(g) == Len(g.axisValues)
buttonNum_axes(g) == Len(g.axisValues)
buttonNum(g) == Len(g.buttonValues)
hatNum(g) == Len(g.hatValues)

\* axisValue with "axis > len" for "axis >= len".
axisValue_offByOne(g, axis) ==
    IF axis < 0 \/ axis > Len(g.axisValues) THEN return(Zero)
    ELSE at(g.axisValues, axis)

axisValue(g, axis) ==
    IF axis < 0 \/ axis >= Len(g.axisValues) THEN return(Zero)
    ELSE at(g.axisValues, axis)

isButtonPressed(g, button) ==
    IF button < 0 \/ button >= Len(g.buttonValues) THEN return(FALSE)
    ELSE at(g.buttonValues, button)

hatState(g, hat) ==
    IF hat < 0 \/ hat >= Len(g.hatValues) THEN return(hatCentered)
    ELSE at(g.hatValues, hat)

(* --------------------------- operations --------------------------------- *)

\* The native elements of a record's buckets.
natives(g) ==
    {g.axes[i].native : i \in 1..Len(g.axes)}
      \cup {g.buttons[i].native : i \in 1..Len(g.buttons)}
      \cup {g.hats[i].native : i \in 1..Len(g.hats)}

\* The record the matching callback builds for device, whose properties and
\* elements are d (lines 274-388).
attached(device, d) ==
    LET name == deviceName(d)
        g0 == [add(name, sdlID(name, d.vendor, d.product, d.version))
                 EXCEPT !.device = device]
        g1 == classify(g0, d.elements, 1)
    IN [g1 EXCEPT !.axes = stableSort(@), !.buttons = stableSort(@),
                  !.hats = stableSort(@)]

Init ==
    /\ gamepads = [id \in Ids |-> ZeroGamepad]
    /\ nextId = 1
    /\ theGamepads = {}
    /\ lastCall = [op |-> "none", found |-> FALSE]
    /\ callback = NoCallback
    /\ ZeroUserInterface

\* ebitenGamepadMatchingCallback for device, which IOKit describes as d.
MatchingCallback_reuse(device, d) ==
    /\ IF find(device) # 0
       THEN /\ lastCall' = [op |-> "attach", found |-> TRUE]
            /\ UNCHANGED <<gamepads, nextId, theGamepads>>
       ELSE IF \E id \in 1..(nextId - 1) : gamepads[id].device = device
       THEN /\ theGamepads' = theGamepads \cup
                 {CHOOSE id \in 1..(nextId - 1) : gamepads[id].device = device}
            /\ lastCall' = [op |-> "attach", found |-> FALSE]
            /\ UNCHANGED <<gamepads, nextId>>
       ELSE /\ nextId <= MaxRecords
            /\ gamepads' = [gamepads EXCEPT ![nextId] = attached(device, d)]
            /\ theGamepads' = theGamepads \cup {nextId}
            /\ nextId' = nextId + 1
            /\ lastCall' = [op |-> "attach", found |-> FALSE]
    /\ UNCHANGED <<callback, uiVars>>
MatchingCallback(device, d) ==
    /\ IF find(device) # 0
       THEN /\ lastCall' = [op |-> "attach", found |-> TRUE]
            /\ UNCHANGED <<gamepads, nextId, theGamepads>>
       ELSE /\ nextId <= MaxRecords
            /\ gamepads' = [gamepads EXCEPT ![nextId] = attached(device, d)]
            /\ theGamepads' = theGamepads \cup {nextId}
            /\ nextId' = nextId + 1
            /\ lastCall' = [op |-> "attach", found |-> FALSE]
    /\ UNCHANGED <<callback, uiVars>>

\* ebitenGamepadRemovalCallback for device.
RemovalCallback(device) ==
    /\ theGamepads' = remove(device)
    /\ lastCall' = [op |-> "detach", found |-> remove(device) # theGamepads]
    /\ UNCHANGED <<gamepads, nextId, callback, uiVars>>

\* One poll of registry record id: update() with reads rd.
Update(id, rd) ==
    /\ id \in theGamepads
    /\ gamepads' = [gamepads EXCEPT ![id] = update(@, rd)]
    /\ UNCHANGED <<nextId, theGamepads, lastCall, callback, uiVars>>

Next ==
    \/ \E device \in Devices, d \in DeviceCatalog : MatchingCallback(device, d)
    \/ \E device \in Devices : RemovalCallback(device)
    \/ \E id \in Ids : \E rd \in [natives(gamepads[id]) -> ReadResults] : Update(id, rd)

Spec == Init /\ [][Next]_vars

\* Sampling alone: one device of the sampler catalog has been attached by the
\* matching callback, and is polled from then on.
InitSampler ==
    \E d \in SamplerCatalog :
        /\ gamepads = [id \in Ids |-> IF id = 1 THEN attached(1, d) ELSE ZeroGamepad]
        /\ nextId = 2
        /\ theGamepads = {1}
        /\ lastCall = [op |-> "attach", found |-> FALSE]
        /\ callback = NoCallback
        /\ ZeroUserInterface

NextSampler ==
    \E id \in Ids : \E rd \in [natives(gamepads[id]) -> ReadResults] : Update(id, rd)

SpecSampler == InitSampler /\ [][NextSampler]_vars


(* ------------------- the identifier of one attach ----------------------- *)

\* The longest product name of the identifier catalog, one byte more than
\* the 12 bytes the identifier keeps.
MaxNameLen == 13

\* Byte i of the catalog's product names: a lowercase letter.
nameByte(i) == 97 + ((i * 7) % 26)

\* Product names of every length up to MaxNameLen that agree byte for byte,
\* and for each the name whose last byte is 0xff instead.
IdentNames ==
    { [i \in 1..n |-> nameByte(i)] : n \in 0..MaxNameLen }
    \cup { [i \in 1..n |-> IF i = n THEN 255 ELSE nameByte(i)] :
             n \in 1..MaxNameLen }

\* The properties lines 274-294 read: a product name or none; a vendor that
\* is 0, fits 16 bits, or is non-zero with 16 zero low bits; likewise
\* product and version.  The elements differ with the name's length.
IdentCatalog ==
    { Device(hasName, name, vendor, product, version,
             IF Len(name) % 2 = 0
             THEN <<>>
             ELSE << RawElement(TRUE, kIOHIDElementType.Input_Button,
                                kHIDPage.Button, 1, 0, 1) >>) :
        hasName \in BOOLEAN, name \in IdentNames,
        vendor \in {0, 1118, 65536}, product \in {0, 654},
        version \in {0, 276, 43981} }


\* One device of the identifier catalog is attached to an empty registry.
AttachIdent(d) ==
    /\ theGamepads = {}
    /\ MatchingCallback(1, d)

NextIdent == \E d \in IdentCatalog : AttachIdent(d)

SpecIdent == Init /\ [][NextIdent]_vars


(* ------------------ the classification of one attach -------------------- *)

\* The longest element array of the classification catalog.
MaxElems == 4

\* An element with logical range [0, 1].
Elem(typ, page, usage) == RawElement(TRUE, typ, page, usage, 0, 1)

\* Elements a device can report, in one array order: every usage the switch
\* at lines 334-383 names, under each of the three input types, the same
\* usage twice, and between them values no case accepts: an array member
\* that is not an element, other element types, usages the cases leave out,
\* listed usage numbers under another page, and other pages.
ElementKinds ==
    << RawElement(TRUE, kIOHIDElementType.Input_Axis,
                  kHIDPage.GenericDesktop, kHIDUsage_GD.X, 0, 1),
       RawElement(TRUE, kIOHIDElementType.Input_Misc,
                  kHIDPage.GenericDesktop, kHIDUsage_GD.X, 0, 2),
       Elem(kIOHIDElementType.Input_Axis, kHIDPage.GenericDesktop, kHIDUsage_GD.Y),
       Elem(kIOHIDElementType.Input_Misc, kHIDPage.GenericDesktop, kHIDUsage_GD.Z),
       Elem(kIOHIDElementType.Input_Button, kHIDPage.GenericDesktop, kHIDUsage_GD.Rx),
       Elem(kIOHIDElementType.Input_Axis, kHIDPage.GenericDesktop, kHIDUsage_GD.Ry),
       Elem(kIOHIDElementType.Input_Misc, kHIDPage.GenericDesktop, kHIDUsage_GD.Rz),
       Elem(kIOHIDElementType.Input_Button, kHIDPage.GenericDesktop, kHIDUsage_GD.Slider),
       Elem(kIOHIDElementType.Input_Axis, kHIDPage.GenericDesktop, kHIDUsage_GD.Dial),
       Elem(kIOHIDElementType.Input_Misc, kHIDPage.GenericDesktop, kHIDUsage_GD.Wheel),
       Elem(kIOHIDElementType.Input_Misc, kHIDPage.GenericDesktop, kHIDUsage_GD.Hatswitch),
       Elem(kIOHIDElementType.Input_Misc, kHIDPage.GenericDesktop, 58),
       Elem(kIOHIDElementType.Input_Button, kHIDPage.GenericDesktop, kHIDUsage_GD.Hatswitch),
       Elem(kIOHIDElementType.Input_Button, kHIDPage.GenericDesktop, kHIDUsage_GD.Start),
       Elem(kIOHIDElementType.Input_Misc, kHIDPage.GenericDesktop, kHIDUsage_GD.Select),
       Elem(kIOHIDElementType.Input_Axis, kHIDPage.GenericDesktop, 1),
       Elem(kIOHIDElementType.Input_Axis, kHIDPage.GenericDesktop, kHIDUsage_GD.SystemMainMenu),
       Elem(kIOHIDElementType.Input_Button, kHIDPage.GenericDesktop, 132),
       Elem(kIOHIDElementType.Input_Button, kHIDPage.GenericDesktop, kHIDUsage_GD.DPadUp),
       Elem(kIOHIDElementType.Input_Misc, kHIDPage.GenericDesktop, kHIDUsage_GD.DPadDown),
       RawElement(FALSE, kIOHIDElementType.Input_Button,
                  kHIDPage.Button, 1, 0, 1),
       Elem(kIOHIDElementType.Input_Axis, kHIDPage.GenericDesktop, kHIDUsage_GD.DPadRight),
       Elem(kIOHIDElementType.Input_Button, kHIDPage.GenericDesktop, kHIDUsage_GD.DPadLeft),
       Elem(kIOHIDElementType.Input_Button, kHIDPage.GenericDesktop, 148),
       Elem(kIOHIDElementType.Collection, kHIDPage.GenericDesktop, kHIDUsage_GD.X),
       Elem(kIOHIDElementType.Input_Axis, kHIDPage.Simulation, kHIDUsage_Sim.Rudder),
       Elem(kIOHIDElementType.Input_Misc, kHIDPage.Simulation, kHIDUsage_Sim.Throttle),
       Elem(kIOHIDElementType.Input_Axis, kHIDPage.Simulation, 188),
       Elem(kIOHIDElementType.Input_Button, kHIDPage.Simulation, kHIDUsage_Sim.Accelerator),
       Elem(kIOHIDElementType.Input_Axis, kHIDPage.Simulation, kHIDUsage_Sim.Brake),
       Elem(kIOHIDElementType.Input_ScanCodes, kHIDPage.Button, 1),
       Elem(kIOHIDElementType.Input_Misc, kHIDPage.Simulation, kHIDUsage_Sim.Steering),
       Elem(kIOHIDElementType.Input_Axis, kHIDPage.Simulation, kHIDUsage_GD.X),
       Elem(kIOHIDElementType.Input_Button, kHIDPage.Button, 1),
       Elem(kIOHIDElementType.Input_Misc, kHIDPage.Button, 2),
       Elem(129, kHIDPage.Button, 3),
       Elem(kIOHIDElementType.Input_Axis, kHIDPage.Button, kHIDUsage_GD.Hatswitch),
       Elem(kIOHIDElementType.Input_Button, kHIDPage.Consumer, 547),
       Elem(kIOHIDElementType.Input_Misc, kHIDPage.Consumer, 1),
       Elem(257, kHIDPage.GenericDesktop, kHIDUsage_GD.Hatswitch),
       Elem(kIOHIDElementType.Input_Button, kHIDPage.KeyboardOrKeypad, kHIDUsage_GD.X),
       Elem(kIOHIDElementType.Input_Button, 8, 1),
       Elem(kIOHIDElementType.Input_Misc, 0, 0),
       Elem(kIOHIDElementType.Input_Axis, kHIDPage.GenericDesktop, kHIDUsage_Sim.Rudder),
       Elem(kIOHIDElementType.Input_Button, kHIDPage.Button, 1) >>

\* The array in the opposite order.
Reversed(s) == [i \in 1..Len(s) |-> s[Len(s) + 1 - i]]

\* The arrays IOHIDDeviceCopyMatchingElements returns: every run of up to
\* MaxElems consecutive elements, in either order.
ElementArrays ==
    { SubSeq(m, w[1], w[1] + w[2] - 1) :
        w \in { p \in (1..Len(ElementKinds)) \X (0..MaxElems) :
                  p[1] + p[2] - 1 <= Len(ElementKinds) },
        m \in {ElementKinds, Reversed(ElementKinds)} }

ClassifyCatalog ==
    { Device(TRUE, NamePad, 0, 0, 0, elems) : elems \in ElementArrays }

\* One device of the classification catalog is attached to an empty registry.
AttachClassify(d) ==
    /\ theGamepads = {}
    /\ MatchingCallback(1, d)

NextClassify == \E d \in ClassifyCatalog : AttachClassify(d)

SpecClassify == Init /\ [][NextClassify]_vars


(* ------------- the matching callback statement by statement ------------- *)

\* The device whose attach is followed statement by statement: its axes
\* are reported out of usage order, with a button after them.
ConcCatalog ==
    { Device(FALSE, <<>>, 0, 0, 0,
        << Elem(kIOHIDElementType.Input_Axis, kHIDPage.GenericDesktop, kHIDUsage_GD.Y),
           Elem(kIOHIDElementType.Input_Axis, kHIDPage.GenericDesktop, kHIDUsage_GD.X),
           Elem(kIOHIDElementType.Input_Button, kHIDPage.Button, 1) >>) }

\* The reads of a poll that runs beside the callback: failed, 0 or 1.
ConcReads ==
    {[ok |-> FALSE, value |-> 0], [ok |-> TRUE, value |-> 0],
     [ok |-> TRUE, value |-> 1]}

\* Lines 268-314: the lookup, the properties, the identifier and add().
\* When the device is known the callback returns at line 271.
CallbackAdd(device, d) ==
    /\ callback.pc = "idle"
    /\ IF find(device) # 0
       THEN /\ lastCall' = [op |-> "attach", found |-> TRUE]
            /\ UNCHANGED <<gamepads, nextId, theGamepads, callback>>
       ELSE /\ nextId <= MaxRecords
            /\ gamepads' =
                 [gamepads EXCEPT ![nextId] =
                    add(deviceName(d),
                        sdlID(deviceName(d), d.vendor, d.product, d.version))]
            /\ theGamepads' = theGamepads \cup {nextId}
            /\ nextId' = nextId + 1
            /\ lastCall' = [op |-> "attach", found |-> FALSE]
            /\ callback' = [pc |-> "device", id |-> nextId, device |-> device,
                            elements |-> d.elements, i |-> 1]
    /\ UNCHANGED uiVars

\* Line 315: g.device = device.
CallbackSetDevice ==
    /\ callback.pc = "device"
    /\ gamepads' = [gamepads EXCEPT ![callback.id].device = callback.device]
    /\ callback' = [callback EXCEPT !.pc = "classify"]
    /\ UNCHANGED <<nextId, theGamepads, lastCall, uiVars>>

\* One iteration of the loop of lines 317-384.
CallbackClassify ==
    /\ callback.pc = "classify"
    /\ callback.i <= Len(callback.elements)
    /\ gamepads' =
         [gamepads EXCEPT ![callback.id] =
            classify(@, SubSeq(callback.elements, 1, callback.i), callback.i)]
    /\ callback' = [callback EXCEPT !.i = @ + 1]
    /\ UNCHANGED <<nextId, theGamepads, lastCall, uiVars>>

\* Lines 386-389: the loop has ended; the three sorts, and the return.
CallbackSort ==
    /\ callback.pc = "classify"
    /\ callback.i > Len(callback.elements)
    /\ gamepads' =
         [gamepads EXCEPT ![callback.id] =
            [@ EXCEPT !.axes = stableSort(@), !.buttons = stableSort(@),
                      !.hats = stableSort(@)]]
    /\ callback' = NoCallback
    /\ UNCHANGED <<nextId, theGamepads, lastCall, uiVars>>

\* The removal callback runs on the same run loop as the matching callback:
\* it starts only once that one has returned.
CallbackRemoval(device) ==
    /\ callback.pc = "idle"
    /\ RemovalCallback(device)

NextConc ==
    \/ \E device \in Devices, d \in ConcCatalog : CallbackAdd(device, d)
    \/ CallbackSetDevice
    \/ CallbackClassify
    \/ CallbackSort
    \/ \E device \in Devices : CallbackRemoval(device)
    \/ \E id \in Ids : \E rd \in [natives(gamepads[id]) -> ConcReads] : Update(id, rd)

SpecConc == Init /\ [][NextConc]_vars


(* ------------- one handle attached, removed and attached again ---------- *)

\* An axis with logical range [0, 1].
AxisX == Elem(kIOHIDElementType.Input_Axis, kHIDPage.GenericDesktop, kHIDUsage_GD.X)

\* What IOKit reports behind one handle over time: two names with one
\* non-zero vendor, product and version; the same with another version;
\* two names with vendor 0 and one product and version.
ReattachCatalog ==
    { Device(TRUE, NamePad, 1118, 654, 276, <<AxisX>>),
      Device(TRUE, NameLong, 1118, 654, 276, <<>>),
      Device(TRUE, NamePad, 1118, 654, 0, <<AxisX>>),
      Device(TRUE, NamePad, 0, 654, 0, <<AxisX>>),
      Device(TRUE, NameLong, 0, 654, 0, <<AxisX>>) }

NextReattach ==
    \/ \E d \in ReattachCatalog : MatchingCallback(1, d)
    \/ RemovalCallback(1)
    \/ \E id \in Ids : \E rd \in [natives(gamepads[id]) -> ConcReads] : Update(id, rd)

SpecReattach == Init /\ [][NextReattach]_vars


(* ------------------ one attach, polled from then on --------------------- *)

\* A poll in which every element read has the same outcome.
UniformReads(g) == { [n \in natives(g) |-> r] : r \in ConcReads }

NextCounts ==
    \/ \E d \in ClassifyCatalog : AttachClassify(d)
    \/ \E id \in Ids : \E rd \in UniformReads(gamepads[id]) : Update(id, rd)

SpecCounts == Init /\ [][NextCounts]_vars


(* --------------------- UserInterface: the error ------------------------- *)

\* The values passed to setError.
Errors == {nil, "e1", "e2"}

\* errM.Lock() at the head of method m, by goroutine p.
lock(p) ==
    /\ call[p].pc \in {"setError:lock", "error:lock"}
    /\ errM = 0
    /\ errM' = p
    /\ call' = [call EXCEPT ![p].pc =
                  IF @ = "setError:lock" THEN "setError:body" ELSE "error:body"]
    /\ UNCHANGED <<err, running, terminated, gamepadVars>>

\* The deferred errM.Unlock(), and the return.
unlock(p) ==
    /\ call[p].pc \in {"setError:unlock", "error:unlock"}
    /\ errM' = 0
    /\ call' = [call EXCEPT ![p].pc = "idle"]
    /\ UNCHANGED <<err, running, terminated, gamepadVars>>

\* Goroutine p calls setError(e).
setError_call(p, e) ==
    /\ call[p].pc = "idle"
    /\ call' = [call EXCEPT ![p].pc = "setError:lock", ![p].arg = e]
    /\ UNCHANGED <<err, errM, running, terminated, gamepadVars>>

\* u.err after lines 161-163 with argument e.
setError_always(old, e) == e
setError(old, e) == IF old = nil THEN e ELSE old

\* Lines 161-163, under the lock.
setError_body(p) ==
    /\ call[p].pc = "setError:body"
    /\ err' = setError(err, call[p].arg)
    /\ call' = [call EXCEPT ![p].pc = "setError:unlock"]
    /\ UNCHANGED <<errM, running, terminated, gamepadVars>>

\* Goroutine p calls error().
error_call(p) ==
    /\ call[p].pc = "idle"
    /\ call' = [call EXCEPT ![p].pc = "error:lock"]
    /\ UNCHANGED <<err, errM, running, terminated, gamepadVars>>

\* Line 155, under the lock: the value returned is u.err as read here.
error_body(p) ==
    /\ call[p].pc = "error:body"
    /\ call' = [call EXCEPT ![p].pc = "error:unlock", ![p].ret = err]
    /\ UNCHANGED <<err, errM, running, terminated, gamepadVars>>

NextError ==
    \/ \E p \in Procs, e \in Errors : setError_call(p, e)
    \/ \E p \in Procs : error_call(p)
    \/ \E p \in Procs : lock(p)
    \/ \E p \in Procs : setError_body(p)
    \/ \E p \in Procs : error_body(p)
    \/ \E p \in Procs : unlock(p)

SpecError == Init /\ [][NextError]_vars


(* ------------------ UserInterface: running, terminated ------------------ *)

\* Goroutine p calls setRunning(b): one atomic store.
setRunning(p, b) ==
    /\ call[p].pc = "idle"
    /\ running' = IF b THEN 1 ELSE 0
    /\ UNCHANGED <<err, errM, terminated, call, gamepadVars>>

\* Goroutine p calls setTerminated(): one atomic store.
setTerminated(p) ==
    /\ call[p].pc = "idle"
    /\ terminated' = 1
    /\ UNCHANGED <<err, errM, running, call, gamepadVars>>

\* What isTerminated() returns when its atomic load gives t.
isTerminated_never(t) == FALSE
isTerminated(t) == t # 0

\* Goroutine p calls isTerminated(): one atomic load.
isTerminated_call(p) ==
    /\ call[p].pc = "idle"
    /\ call' = [call EXCEPT ![p].result = isTerminated(terminated)]
    /\ UNCHANGED <<err, errM, running, terminated, gamepadVars>>

\* Goroutine p calls isRunning(): the atomic load of u.running, the left
\* operand of &&.  When it is 0 the call returns false here.
isRunning_loadRunning(p) ==
    /\ call[p].pc = "idle"
    /\ call' = [call EXCEPT
                  ![p].seen = running,
                  ![p].pc = IF running # 0 THEN "isRunning:isTerminated" ELSE "idle",
                  ![p].result = IF running # 0 THEN @ ELSE FALSE]
    /\ UNCHANGED <<err, errM, running, terminated, gamepadVars>>

\* The right operand of &&: !u.isTerminated(), and the return.
isRunning_isTerminated(p) ==
    /\ call[p].pc = "isRunning:isTerminated"
    /\ call' = [call EXCEPT ![p].pc = "idle",
                            ![p].result = ~isTerminated(terminated)]
    /\ UNCHANGED <<err, errM, running, terminated, gamepadVars>>

NextRunning ==
    \/ \E p \in Procs, b \in BOOLEAN : setRunning(p, b)
    \/ \E p \in Procs : setTerminated(p)
    \/ \E p \in Procs : isTerminated_call(p)
    \/ \E p \in Procs : isRunning_loadRunning(p)
    \/ \E p \in Procs : isRunning_isTerminated(p)

SpecRunning == Init /\ [][NextRunning]_vars

(* ----------------------------- claims ------------------------------------ *)

\* The reads update() can be given for record g.
Reads(g) == [natives(g) -> ReadResults]

One == [num |-> 1, den |-> 1]
MinusOne == [num |-> -1, den |-> 1]

\* -1 <= v <= 1 for a fraction with a positive denominator.
InUnit(v) == -v.den <= v.num /\ v.num <= v.den

\* The registry records whose native handle is device.
entries(device) == {id \in theGamepads : gamepads[id].device = device}

\* Element e of record g could not be read.
readFailed(g, e, rd) == g.device = 0 \/ ~rd[e.native].ok

\* C1: an element whose read fails during update() is sampled as the default:
\* 0.0 for an axis, false for a button, Centered for a hat.
C1_FailedReadGivesDefault ==
    [][\A id \in Ids : \A rd \in Reads(gamepads[id]) :
         Update(id, rd) =>
           LET g == gamepads[id]
               h == gamepads'[id]
           IN /\ \A i \in 1..Len(g.axes) :
                    readFailed(g, g.axes[i], rd) => h.axisValues[i] = Zero
              /\ \A i \in 1..Len(g.buttons) :
                    readFailed(g, g.buttons[i], rd) => h.buttonValues[i] = FALSE
              /\ \A i \in 1..Len(g.hats) :
                    readFailed(g, g.hats[i], rd) => h.hatValues[i] = hatCentered]_vars

\* C2: after update() the stored [minimum, maximum] of every axis element
\* contains the raw value just read for it.
C2_StoredBoundsContainRaw ==
    [][\A id \in Ids : \A rd \in Reads(gamepads[id]) :
         Update(id, rd) =>
           \A i \in 1..Len(gamepads[id].axes) :
              LET raw == elementValue(gamepads[id], gamepads[id].axes[i], rd)
                  e == gamepads'[id].axes[i]
              IN e.minimum <= raw /\ raw <= e.maximum]_vars

\* C3: from one state to the next no axis element's stored minimum increases
\* and none's stored maximum decreases.
C3_BoundsMonotone ==
    [][\A id \in Ids : \A i \in 1..Len(gamepads[id].axes) :
         /\ Len(gamepads'[id].axes) = Len(gamepads[id].axes)
         /\ gamepads'[id].axes[i].minimum <= gamepads[id].axes[i].minimum
         /\ gamepads'[id].axes[i].maximum >= gamepads[id].axes[i].maximum]_vars

\* An axis of width 0 was polled with a raw value above its maximum: the poll
\* returned 1 and the stored bounds are as before.
C3_Witness ==
    \E id \in theGamepads : \E i \in 1..Len(gamepads[id].axisValues) :
        /\ gamepads[id].axes[i].minimum = gamepads[id].axes[i].maximum
        /\ gamepads[id].axisValues[i] = One

\* C4: every value update() stores in axisValues, and every value axisValue
\* returns, lies in [-1, 1].
C4_AxisValueInUnit ==
    \A id \in Ids :
        /\ \A i \in 1..Len(gamepads[id].axisValues) : InUnit(gamepads[id].axisValues[i])
        /\ \A axis \in (-1)..(Len(gamepads[id].axisValues) + 1) :
              /\ ~axisValue(gamepads[id], axis).panic
              /\ InUnit(axisValue(gamepads[id], axis).value)

\* An axis whose logical minimum exceeds its logical maximum has been polled
\* with a raw value above both.
C4_Witness ==
    \E id \in theGamepads : \E i \in 1..Len(gamepads[id].axisValues) :
        /\ gamepads[id].axes[i].minimum > gamepads[id].axes[i].maximum
        /\ gamepads[id].axisValues[i] = One

\* The width of the range of element e once widened by raw.
widenedWidth(e, raw) ==
    (IF raw > e.maximum THEN raw ELSE e.maximum)
      - (IF raw < e.minimum THEN raw ELSE e.minimum)

\* The lower end of the range of element e once widened by raw.
widenedMin(e, raw) == IF raw < e.minimum THEN raw ELSE e.minimum

\* C5 as stated: the value update() stores for an axis is 0.0 exactly when the
\* widened range has width 0.
C5_ZeroIffWidthZero ==
    [][\A id \in Ids : \A rd \in Reads(gamepads[id]) :
         Update(id, rd) =>
           \A i \in 1..Len(gamepads[id].axes) :
              LET e == gamepads[id].axes[i]
                  raw == elementValue(gamepads[id], e, rd)
              IN (gamepads'[id].axisValues[i] = Zero) <=> (widenedWidth(e, raw) = 0)]_vars

\* C5 as amended: the value update() stores for an axis is 0.0 exactly when
\* the widened range has width 0 or raw is the midpoint of the widened range.
C5_ZeroIffWidthZeroOrMidpoint ==
    [][\A id \in Ids : \A rd \in Reads(gamepads[id]) :
         Update(id, rd) =>
           \A i \in 1..Len(gamepads[id].axes) :
              LET e == gamepads[id].axes[i]
                  raw == elementValue(gamepads[id], e, rd)
                  width == widenedWidth(e, raw)
              IN (gamepads'[id].axisValues[i] = Zero)
                   <=> (width = 0 \/ 2 * (raw - widenedMin(e, raw)) = width)]_vars

\* An axis whose widened range has non-zero width has been polled to 0.0.
C5_Witness ==
    \E id \in theGamepads : \E i \in 1..Len(gamepads[id].axisValues) :
        /\ gamepads[id].axes[i].minimum < gamepads[id].axes[i].maximum
        /\ gamepads[id].axisValues[i] = Zero

\* The state the specification gives for a raw hat value.
hatOf(raw) ==
    CASE raw = 0 -> "Up"
      [] raw = 1 -> "RightUp"
      [] raw = 2 -> "Right"
      [] raw = 3 -> "RightDown"
      [] raw = 4 -> "Down"
      [] raw = 5 -> "LeftDown"
      [] raw = 6 -> "Left"
      [] raw = 7 -> "LeftUp"
      [] OTHER -> "Centered"

NineStates ==
    {"Centered", "Up", "RightUp", "Right", "RightDown",
     "Down", "LeftDown", "Left", "LeftUp"}

\* C6: after update() every hat that was read holds the state of its raw
\* value (0..7 in order Up, RightUp, ..., LeftUp; anything else Centered), and
\* hatState returns one of the nine states for every index.
C6_HatDecoding ==
    [][\A id \in Ids : \A rd \in Reads(gamepads[id]) :
         Update(id, rd) =>
           /\ \A i \in 1..Len(gamepads[id].hats) :
                 rd[gamepads[id].hats[i].native].ok =>
                    /\ Len(gamepads'[id].hatValues) = Len(gamepads[id].hats)
                    /\ gamepads'[id].hatValues[i]
                         = hatOf(rd[gamepads[id].hats[i].native].value)
           /\ \A hat \in (-1)..(Len(gamepads[id].hats) + 1) :
                 /\ ~hatState(gamepads'[id], hat).panic
                 /\ hatState(gamepads'[id], hat).value \in NineStates]_vars

\* A hat has been polled at raw 7.
C6_Witness ==
    \E id \in theGamepads : \E i \in 1..Len(gamepads[id].hatValues) :
        gamepads[id].hatValues[i] = "LeftUp"

\* The indices outside a buffer of length n that are tried.
OutOfRange(n) == {-2, -1, n, n + 1, 99}

\* C7: on every record allocated so far, axisValue, isButtonPressed and
\* hatState with an index below 0 or at least the current count return 0.0,
\* false and Centered without failing.
C7_OutOfRangeDefaults ==
    \A id \in 1..(nextId - 1) :
        LET g == gamepads[id] IN
        /\ \A axis \in OutOfRange(axisNum(g)) :
              ~axisValue(g, axis).panic /\ axisValue(g, axis).value = Zero
        /\ \A button \in OutOfRange(buttonNum(g)) :
              ~isButtonPressed(g, button).panic /\ isButtonPressed(g, button).value = FALSE
        /\ \A hat \in OutOfRange(hatNum(g)) :
              ~hatState(g, hat).panic /\ hatState(g, hat).value = hatCentered

\* The three situations coexist: a removed record that had been polled, and a
\* registry record not polled yet.
C7_Witness ==
    /\ \E id \in 1..(nextId - 1) :
          id \notin theGamepads /\ axisNum(gamepads[id]) + buttonNum(gamepads[id]) > 0
    /\ \E id \in theGamepads :
          /\ axisNum(gamepads[id]) = 0 /\ buttonNum(gamepads[id]) = 0
          /\ Len(gamepads[id].axes) + Len(gamepads[id].buttons) > 0

\* C8: an attach notification for a handle that has a registry entry adds no
\* entry and changes no record; the handle keeps exactly one entry.
C8_AttachIdempotent ==
    [][\A device \in Devices : \A d \in DeviceCatalog :
         (entries(device) # {} /\ MatchingCallback(device, d)) =>
            /\ UNCHANGED <<gamepads, nextId, theGamepads>>
            /\ Cardinality({id \in theGamepads' : gamepads'[id].device = device}) = 1]_vars

\* An attach notification was delivered for a handle already in the registry.
C8_Witness ==
    /\ lastCall.op = "attach" /\ lastCall.found
    /\ Cardinality(theGamepads) = 1

\* C9: a detach notification removes exactly the registry entries whose
\* native handle equals the notified one, none when there is no such entry,
\* and changes no record.
C9_DetachFrame ==
    [][\A device \in Devices :
         RemovalCallback(device) =>
            /\ theGamepads' = theGamepads \ entries(device)
            /\ entries(device) = {} => theGamepads' = theGamepads
            /\ gamepads' = gamepads]_vars

\* A detach notification was delivered for a handle without a registry entry
\* while the registry held another device.
C9_Witness ==
    /\ lastCall.op = "detach" /\ ~lastCall.found
    /\ theGamepads # {}

\* C10: no two registry records hold the same non-null native handle.
C10_UniqueHandles ==
    \A a \in theGamepads : \A b \in theGamepads :
        (a # b /\ gamepads[a].device # 0) => gamepads[a].device # gamepads[b].device

\* The registry holds two devices and an attach notification has just been
\* redelivered for one of them.
C10_Witness ==
    /\ Cardinality(theGamepads) >= 2
    /\ lastCall.op = "attach" /\ lastCall.found
    /\ \A device \in Devices : Cardinality(entries(device)) <= 1


(* ---- C11 ---- *)

\* The characters %02x can print.
LowerHexChars ==
    {"0", "1", "2", "3", "4", "5", "6", "7",
     "8", "9", "a", "b", "c", "d", "e", "f"}

\* The value of one lowercase hexadecimal digit.
HexVal(c) ==
    CASE c = "0" -> 0 [] c = "1" -> 1 [] c = "2" -> 2 [] c = "3" -> 3
      [] c = "4" -> 4 [] c = "5" -> 5 [] c = "6" -> 6 [] c = "7" -> 7
      [] c = "8" -> 8 [] c = "9" -> 9 [] c = "a" -> 10 [] c = "b" -> 11
      [] c = "c" -> 12 [] c = "d" -> 13 [] c = "e" -> 14 [] c = "f" -> 15

\* The byte written at characters k and k+1 of identifier s.
byteAt(s, k) == 16 * HexVal(s[k]) + HexVal(s[k + 1])

Zeros4 == <<"0", "0", "0", "0">>

\* "030000005e0400008e02000014010000"
ExampleID ==
    <<"0", "3", "0", "0", "0", "0", "0", "0",
      "5", "e", "0", "4", "0", "0", "0", "0",
      "8", "e", "0", "2", "0", "0", "0", "0",
      "1", "4", "0", "1", "0", "0", "0", "0">>

\* s is the identifier claimed for vendor, product and version.
IsVendorProductID(s, vendor, product, version) ==
    /\ Len(s) = 32
    /\ \A k \in 1..32 : s[k] \in LowerHexChars
    /\ SubSeq(s, 1, 8) = <<"0", "3", "0", "0", "0", "0", "0", "0">>
    /\ byteAt(s, 9) = vendor % 256
    /\ byteAt(s, 11) = (vendor \div 256) % 256
    /\ SubSeq(s, 13, 16) = Zeros4
    /\ byteAt(s, 17) = product % 256
    /\ byteAt(s, 19) = (product \div 256) % 256
    /\ SubSeq(s, 21, 24) = Zeros4
    /\ byteAt(s, 25) = version % 256
    /\ byteAt(s, 27) = (version \div 256) % 256
    /\ SubSeq(s, 29, 32) = Zeros4

\* C11: an attach of a device whose vendor and product are both non-zero
\* gives the new record an identifier of 32 lowercase hexadecimal characters:
\* "03000000", then vendor, product and version, each as its low byte, its
\* high byte and "0000"; vendor 0x045E, product 0x028E, version 0x0114 give
\* "030000005e0400008e02000014010000", whatever the name and the elements.
C11_VendorProductIdentifier ==
    [][ (theGamepads = {}) =>
          \A d \in IdentCatalog :
            (d.vendor # 0 /\ d.product # 0 /\ MatchingCallback(1, d)) =>
              /\ IsVendorProductID(gamepads'[nextId].sdlID,
                                   d.vendor, d.product, d.version)
              /\ (d.vendor = 1118 /\ d.product = 654 /\ d.version = 276) =>
                   gamepads'[nextId].sdlID = ExampleID ]_vars

\* A record attached with a 13-byte name and one element carries the
\* example identifier.
C11_Witness ==
    \E id \in theGamepads :
      /\ gamepads[id].sdlID = ExampleID
      /\ Len(gamepads[id].name) = 13
      /\ Len(gamepads[id].buttons) = 1


(* ---- C12 ---- *)

\* The bytes of "Unknown".
UnknownBytes == <<85, 110, 107, 110, 111, 119, 110>>

\* "05000000556e6b6e6f776e0000000000"
UnknownID ==
    <<"0", "5", "0", "0", "0", "0", "0", "0",
      "5", "5", "6", "e", "6", "b", "6", "e", "6", "f", "7", "7", "6", "e",
      "0", "0", "0", "0", "0", "0", "0", "0", "0", "0">>

\* Byte i of a name as the identifier keeps it: 0 past the name's end.
keptByte(name, i) == IF i <= Len(name) THEN name[i] ELSE 0

\* s is the identifier claimed for a device named name.
IsNameID(s, name) ==
    /\ Len(s) = 32
    /\ \A k \in 1..32 : s[k] \in LowerHexChars
    /\ SubSeq(s, 1, 8) = <<"0", "5", "0", "0", "0", "0", "0", "0">>
    /\ \A i \in 1..12 : byteAt(s, 7 + 2 * i) = keptByte(name, i)

\* C12: an attach of a device whose vendor or product is zero gives the new
\* record the identifier "05000000" followed by the hexadecimal of the first
\* 12 bytes of its name, zero-padded on the right when the name is shorter
\* and cut when it is longer, 32 characters in all; names that agree in
\* their first 12 bytes give the same identifier; a device without the name
\* property is named "Unknown".
C12_NameIdentifier ==
    [][ (theGamepads = {}) =>
          \A d \in IdentCatalog :
            ((d.vendor = 0 \/ d.product = 0) /\ MatchingCallback(1, d)) =>
              LET g == gamepads'[nextId]
                  name == IF d.hasName THEN d.name ELSE UnknownBytes
              IN /\ g.name = name
                 /\ IsNameID(g.sdlID, name)
                 /\ ~d.hasName => g.sdlID = UnknownID
                 /\ \A other \in IdentNames :
                      (\A i \in 1..12 : keptByte(other, i) = keptByte(name, i))
                        => sdlID(other, d.vendor, d.product, d.version)
                             = g.sdlID ]_vars

\* A record with a 13-byte name ending in 0xff whose identifier ends with
\* the name's 12th byte, and not with ff.
C12_Witness ==
    \E id \in theGamepads :
      /\ Len(gamepads[id].name) = 13
      /\ gamepads[id].name[13] = 255
      /\ SubSeq(gamepads[id].sdlID, 1, 2) = <<"0", "5">>
      /\ byteAt(gamepads[id].sdlID, 31) = gamepads[id].name[12]


(* ---- C13 ---- *)

\* The three buckets of a record.
Buckets(g) == {g.axes, g.buttons, g.hats}

\* s is in non-decreasing usage order, equal usages by increasing index.
Ordered(s) ==
    \A i, j \in 1..Len(s) :
      i < j => \/ s[i].usage < s[j].usage
               \/ s[i].usage = s[j].usage /\ s[i].index < s[j].index

\* C13: every bucket of every registered record is ordered by non-decreasing
\* usage, and elements of equal usage are in discovery order.
C13_BucketsSorted ==
    \A id \in theGamepads : \A s \in Buckets(gamepads[id]) : Ordered(s)

\* A bucket holding two elements of one usage and an element the sort moved
\* ahead of one discovered before it.
C13_Witness ==
    \E id \in theGamepads : \E s \in Buckets(gamepads[id]) :
      /\ \E i, j \in 1..Len(s) : i < j /\ s[i].usage = s[j].usage
      /\ \E i, j \in 1..Len(s) : i < j /\ s[i].index > s[j].index


(* ---- C14 ---- *)

\* The bucket the classification table gives an array member, by usage page
\* and usage number: generic desktop (page 1) 0x30-0x38 X, Y, Z, Rx, Ry, Rz,
\* Slider, Dial, Wheel and simulation (page 2) 0xBA Rudder, 0xBB Throttle,
\* 0xC4 Accelerator, 0xC5 Brake, 0xC8 Steering are axes; generic desktop
\* 0x39 Hatswitch is a hat; generic desktop 0x3D Start, 0x3E Select, 0x85
\* SystemMenu, 0x90-0x93 DPad and every usage of the button (9) and consumer
\* (12) pages are buttons; input types are misc (1), button (2), axis (3).
TableBucket(raw) ==
    IF ~raw.isElement \/ raw.type \notin {1, 2, 3} THEN "none"
    ELSE CASE raw.page = 1 /\ raw.usage \in 48..56 -> "axes"
           [] raw.page = 1 /\ raw.usage = 57 -> "hats"
           [] raw.page = 1 /\ raw.usage \in {61, 62, 133, 144, 145, 146, 147}
                -> "buttons"
           [] raw.page = 2 /\ raw.usage \in {186, 187, 196, 197, 200} -> "axes"
           [] raw.page \in {9, 12} -> "buttons"
           [] OTHER -> "none"

\* The elements the table puts in bucket b for array elems: one per accepted
\* array position, its index the number of earlier positions accepted into b.
TableElements(elems, b) ==
    { [native |-> i, usage |-> elems[i].usage,
       index |-> Cardinality({j \in 1..(i - 1) : TableBucket(elems[j]) = b}),
       minimum |-> elems[i].logicalMin, maximum |-> elems[i].logicalMax] :
        i \in {k \in 1..Len(elems) : TableBucket(elems[k]) = b} }

\* Sequence s lists exactly the members of set S, each once.
Lists(s, S) == Len(s) = Cardinality(S) /\ {s[k] : k \in 1..Len(s)} = S

\* C14: an attach puts into the axes, buttons and hats buckets exactly the
\* array's elements the classification table assigns to each, skipping the
\* others without stopping, and each accepted element's index is the number
\* of elements accepted into its bucket before it.
C14_ClassificationTable ==
    [][ (theGamepads = {}) =>
          \A d \in ClassifyCatalog :
            MatchingCallback(1, d) =>
              LET g == gamepads'[nextId]
              IN /\ Lists(g.axes, TableElements(d.elements, "axes"))
                 /\ Lists(g.buttons, TableElements(d.elements, "buttons"))
                 /\ Lists(g.hats, TableElements(d.elements, "hats")) ]_vars

\* A record whose array had a skipped member between two accepted buttons,
\* with a button of usage below 0x3D and one of usage 0x85 or above.
C14_Witness ==
    \E id \in theGamepads :
      LET b == gamepads[id].buttons
      IN /\ Len(b) >= 2
         /\ \E i, j \in 1..Len(b) : b[j].native > b[i].native + 1
         /\ \E i \in 1..Len(b) : b[i].usage >= 133
         /\ \E i \in 1..Len(b) : b[i].usage < 61


(* ---- C15 ---- *)

\* Record id is under construction: add() has returned it to a matching
\* callback that has not returned yet.
UnderConstruction(id) == callback.pc # "idle" /\ callback.id = id

\* C15: update() never runs on a registry record whose handle is null, or
\* that a matching callback is still filling, or whose buckets are unsorted.
C15_PollSeesCompleteRecords ==
    [][ \A id \in Ids : \A rd \in [natives(gamepads[id]) -> ConcReads] :
          Update(id, rd) =>
            /\ present(gamepads[id])
            /\ ~UnderConstruction(id)
            /\ \A s \in Buckets(gamepads[id]) : Ordered(s) ]_vars


(* ---- C16 ---- *)

\* The records the removal callback has taken out of the registry.
Removed == {id \in 1..(nextId - 1) : id \notin theGamepads}

\* Record r is one the matching callback builds for a device described as
\* d0, whatever update() has stored in it since.
BuiltFrom(r, d0) ==
    LET a == attached(r.device, d0)
    IN /\ r.name = a.name
       /\ r.sdlID = a.sdlID
       /\ natives(r) = natives(a)

SameTriple(d0, d) ==
    d0.vendor = d.vendor /\ d0.product = d.product /\ d0.version = d.version

\* The new record's calibration bounds are its elements' logical bounds.
BoundsReset(g, d) ==
    \A s \in Buckets(g) : \A k \in 1..Len(s) :
      /\ s[k].minimum = d.elements[s[k].native].logicalMin
      /\ s[k].maximum = d.elements[s[k].native].logicalMax

\* An attach of handle 1, described as d, after record r of that handle was
\* removed: r stays out of the registry, and the record that enters it is a
\* new one from add(), with its bounds at the logical bounds.
FreshRecord(r, d) ==
    /\ r \notin theGamepads'
    /\ theGamepads' = theGamepads \cup {nextId}
    /\ nextId \notin Removed /\ nextId' = nextId + 1
    /\ gamepads'[r] = gamepads[r]
    /\ gamepads'[nextId].device = 1
    /\ axisNum(gamepads'[nextId]) = 0
    /\ BoundsReset(gamepads'[nextId], d)

\* C16 as stated: a removed record never returns to the registry; an attach
\* for its handle creates a new record through add(), with bounds reset, and
\* with the removed record's identifier whenever vendor, product and version
\* are the same as those the removed record was built from.
C16_RemovedIsTerminal ==
    [][ /\ \A r \in Removed : r \notin theGamepads'
        /\ \A d \in ReattachCatalog : \A r \in Removed :
             (gamepads[r].device = 1 /\ MatchingCallback(1, d)
                /\ find(1) = 0) =>
               /\ FreshRecord(r, d)
               /\ \A d0 \in ReattachCatalog :
                    (BuiltFrom(gamepads[r], d0) /\ SameTriple(d0, d)) =>
                      gamepads'[nextId].sdlID = gamepads[r].sdlID ]_vars

\* C16, amended: as above, with the removed record's identifier whenever
\* vendor, product and version are the same and either vendor and product are
\* both non-zero or the name is the same in its first 12 bytes.
C16_RemovedIsTerminalSameName ==
    [][ /\ \A r \in Removed : r \notin theGamepads'
        /\ \A d \in ReattachCatalog : \A r \in Removed :
             (gamepads[r].device = 1 /\ MatchingCallback(1, d)
                /\ find(1) = 0) =>
               /\ FreshRecord(r, d)
               /\ \A d0 \in ReattachCatalog :
                    (/\ BuiltFrom(gamepads[r], d0) /\ SameTriple(d0, d)
                     /\ \/ d.vendor # 0 /\ d.product # 0
                        \/ \A i \in 1..12 :
                             keptByte(deviceName(d0), i) = keptByte(deviceName(d), i))
                      => gamepads'[nextId].sdlID = gamepads[r].sdlID ]_vars

\* A removed record and a registered record of the same handle with the same
\* identifier and different names.
C16_Witness ==
    \E r \in Removed : \E id \in theGamepads :
      /\ gamepads[r].device = gamepads[id].device
      /\ gamepads[r].sdlID = gamepads[id].sdlID
      /\ gamepads[r].name # gamepads[id].name


(* ---- C17 ---- *)

\* axisNum(), buttonNum() and hatNum() of a record.
Counts(g) == <<axisNum(g), buttonNum(g), hatNum(g)>>

\* The capacities of the three value buffers of a record.
Capacities(g) == <<g.axisCap, g.buttonCap, g.hatCap>>

\* Each component of a is at most the same component of b.
AllLeq(a, b) == \A k \in 1..3 : a[k] <= b[k]

\* C17: a record enters the registry with axisNum(), buttonNum() and hatNum()
\* all 0; after every update() they are the lengths of its axes, buttons and
\* hats buckets; and no step lowers them or the value buffers' capacities.
C17_CountsFollowBuckets ==
    [][ \A id \in Ids :
          /\ (id \notin theGamepads /\ id \in theGamepads') =>
               Counts(gamepads'[id]) = <<0, 0, 0>>
          /\ \A rd \in UniformReads(gamepads[id]) :
               Update(id, rd) =>
                 Counts(gamepads'[id]) =
                   <<Len(gamepads[id].axes), Len(gamepads[id].buttons),
                     Len(gamepads[id].hats)>>
          /\ id \in theGamepads =>
               /\ AllLeq(Counts(gamepads[id]), Counts(gamepads'[id]))
               /\ AllLeq(Capacities(gamepads[id]), Capacities(gamepads'[id])) ]_vars

\* A polled record with two axes, a hat and no button, its buffers as large
\* as its buckets.
C17_Witness ==
    \E id \in theGamepads :
      /\ Counts(gamepads[id]) = <<2, 0, 1>>
      /\ Capacities(gamepads[id]) = <<2, 0, 1>>
      /\ Len(gamepads[id].axes) = 2


(* ---- C18 ---- *)

\* C18: under every interleaving of setError and error calls, a non-nil
\* error once stored is never changed, and every value error() has returned
\* is nil or the stored error.
C18_FirstErrorKept ==
    [][ /\ err # nil => err' = err
        /\ \A p \in Procs : call'[p].ret \in {nil, err'} ]_vars

\* "e1" is stored while a setError("e2") has passed the nil test and waits to
\* unlock, and error() has returned "e1" to the other goroutine.
C18_Witness ==
    /\ err = "e1"
    /\ \E p, q \in Procs :
         /\ p # q
         /\ call[p].pc = "setError:unlock" /\ call[p].arg = "e2"
         /\ call[q].ret = "e1"


(* ---- C19 ---- *)

\* Goroutine p's isRunning() call returns in this step.
isRunningReturns(p) ==
    /\ isRunning_loadRunning(p) \/ isRunning_isTerminated(p)
    /\ call'[p].pc = "idle"

\* C19: once the terminated flag is set it stays set, whatever setRunning
\* stores; from then on every isTerminated() returns true and every
\* isRunning() that returns returns false; and an isRunning() returns true
\* only if it read the running flag as set and the terminated flag is not
\* set.
C19_TerminationSticky ==
    [][ /\ terminated = 1 => terminated' = 1
        /\ \A p \in Procs :
             /\ (terminated = 1 /\ isTerminated_call(p)) => call'[p].result
             /\ (terminated = 1 /\ isRunningReturns(p)) => ~call'[p].result
             /\ (isRunningReturns(p) /\ call'[p].result) =>
                  call'[p].seen = 1 /\ terminated = 0 ]_vars

\* After termination the running flag is set again, one goroutine's
\* isRunning() has read it as set and returned false, and another's
\* isTerminated() has returned true.
C19_Witness ==
    /\ terminated = 1
    /\ running = 1
    /\ \E p, q \in Procs :
         /\ p # q
         /\ call[p].pc = "idle" /\ call[p].seen = 1 /\ ~call[p].result
         /\ call[q].pc = "idle" /\ call[q].seen = 0 /\ call[q].result

====
